---- MODULE Spec2Model ----
(***************************************************************************)
(* Model of the attempt sequencer of services/shor.ts (runShor) and of its *)
(* numeric kernel (gcd, power, getConvergents).                            *)
(*                                                                         *)
(* runShor is an async generator.  Each call of next() on it resumes the   *)
(* body at the point where it was suspended and runs it to the next yield, *)
(* to the return, or to the throw; the model has one action per suspension *)
(* point.  The setTimeout pauses that follow most yields only delay the    *)
(* resumed body and change no state.                                       *)
(*                                                                         *)
(* BigInt / and % truncate towards zero; every operand the reachable code  *)
(* gives them is non-negative, where they agree with \div and %.           *)
(***************************************************************************)
EXTENDS Integers, Sequences, FiniteSets, TLC

\* ---- bounds of the model ----

\* the inputs handed to runShor are 0 .. MaxN
MaxN == 29
\* the inputs of the sessions followed to their end under fairness are 0 .. MaxLiveN
MaxLiveN == 15
\* Math.random() is modelled as one of the fractions k / RandRes, 0 <= k < RandRes
RandRes == 32

\* ---- program constants ----

MAX_ATTEMPTS == 10
\* iteration cap of the loop of getConvergents
MaxCfIterations == 30

InputN == 0 .. MaxN

\* N .. snaps: the state of one runShor generator and the snapshots it yielded
\* for the current attempt; call: the last direct call of a kernel function
VARIABLES N, pc, i, attemptId, currentAttempt, loc, snaps, call, emitted, app

vars == <<N, pc, i, attemptId, currentAttempt, loc, snaps, call, emitted, app>>

\* ---- numeric kernel ----

RECURSIVE gcd(_, _)

\* gcd with the loop test b > 1
gcdStopsAtOne(a, b) == IF b <= 1 THEN a ELSE gcd(b, a % b)

gcd(a, b) == IF b = 0 THEN a ELSE gcd(b, a % b)

RECURSIVE powerLoop(_, _, _, _)
powerLoop(res, base, exp, mod) ==
    IF exp > 0
    THEN powerLoop(IF exp % 2 = 1 THEN (res * base) % mod ELSE res,
                   (base * base) % mod, exp \div 2, mod)
    ELSE res

power(base, exp, mod) == powerLoop(1, base % mod, exp, mod)

Convergent(a, hn, kn) == [a |-> a, numerator |-> hn, denominator |-> kn]

RECURSIVE cfLoop(_, _, _, _, _, _, _, _, _)

\* cfLoop without the update hn_2 = hn_1 of line 78
cfLoopStaleNumerator(k, temp_c, temp_q, hn_2, hn_1, kn_2, kn_1, q, convergents) ==
    IF k >= MaxCfIterations \/ temp_q = 0
    THEN convergents
    ELSE LET a  == temp_c \div temp_q
             hn == a * hn_1 + hn_2
             kn == a * kn_1 + kn_2
         IN  IF kn > q
             THEN convergents
             ELSE cfLoop(k + 1, temp_q, temp_c % temp_q, hn_2, hn, kn_1, kn, q,
                         Append(convergents, Convergent(a, hn, kn)))

\* cfLoop computing the denominator as a * kn_1, the term kn_2 forgotten
cfLoopNoCarry(k, temp_c, temp_q, hn_2, hn_1, kn_2, kn_1, q, convergents) ==
    IF k >= MaxCfIterations \/ temp_q = 0
    THEN convergents
    ELSE LET a  == temp_c \div temp_q
             hn == a * hn_1 + hn_2
             kn == a * kn_1
         IN  IF kn > q
             THEN convergents
             ELSE cfLoop(k + 1, temp_q, temp_c % temp_q, hn_1, hn, kn_1, kn, q,
                         Append(convergents, Convergent(a, hn, kn)))

\* cfLoop with the loop test i <= 30
cfLoopOneMore(k, temp_c, temp_q, hn_2, hn_1, kn_2, kn_1, q, convergents) ==
    IF k > MaxCfIterations \/ temp_q = 0
    THEN convergents
    ELSE LET a  == temp_c \div temp_q
             hn == a * hn_1 + hn_2
             kn == a * kn_1 + kn_2
         IN  IF kn > q
             THEN convergents
             ELSE cfLoop(k + 1, temp_q, temp_c % temp_q, hn_1, hn, kn_1, kn, q,
                         Append(convergents, Convergent(a, hn, kn)))

\* cfLoop with the partial quotient rounded up
cfLoopCeil(k, temp_c, temp_q, hn_2, hn_1, kn_2, kn_1, q, convergents) ==
    IF k >= MaxCfIterations \/ temp_q = 0
    THEN convergents
    ELSE LET a  == (temp_c + temp_q - 1) \div temp_q
             hn == a * hn_1 + hn_2
             kn == a * kn_1 + kn_2
         IN  IF kn > q
             THEN convergents
             ELSE cfLoop(k + 1, temp_q, temp_c % temp_q, hn_1, hn, kn_1, kn, q,
                         Append(convergents, Convergent(a, hn, kn)))

cfLoop(k, temp_c, temp_q, hn_2, hn_1, kn_2, kn_1, q, convergents) ==
    IF k >= MaxCfIterations \/ temp_q = 0
    THEN convergents
    ELSE LET a  == temp_c \div temp_q
             hn == a * hn_1 + hn_2
             kn == a * kn_1 + kn_2
         IN  IF kn > q
             THEN convergents
             ELSE cfLoop(k + 1, temp_q, temp_c % temp_q, hn_1, hn, kn_1, kn, q,
                         Append(convergents, Convergent(a, hn, kn)))

getConvergents(c, q) == cfLoop(0, c, q, 0, 1, 1, 0, q, <<>>)

\* ---- helpers of runShor ----

\* Math.floor(Math.random() * m), the draw being k / RandRes
RandomBelow(k, m) == (k * m) \div RandRes

\* PickBase drawing from the half-open range [2, n-1)
PickBaseOpen(k, n) == RandomBelow(k, n - 3) + 2

\* PickBase drawing from [1, n-2]
PickBaseFromOne(k, n) == RandomBelow(k, n - 2) + 1

\* line 104: BigInt(Math.floor(Math.random() * (Number(N) - 2))) + 2n
PickBase(k, n) == RandomBelow(k, n - 2) + 2

\* line 139: BigInt(Math.floor(Math.random() * (Number(r) - 1))) + 1n
PickS(k, r) == RandomBelow(k, r - 1) + 1

\* lines 126-131: the order-finding loop
RECURSIVE orderLoop(_, _, _, _)
orderLoop(val, r, a, n) ==
    IF val # 1 THEN orderLoop((val * a) % n, r + 1, a, n) ELSE r

FindOrder(a, n) == orderLoop(a % n, 1, a, n)

\* line 134: Math.ceil(2 * Math.log2(Number(N))), the least t with 2^t >= N^2
RECURSIVE ceilLog2From(_, _)
ceilLog2From(t, m) == IF 2 ^ t >= m THEN t ELSE ceilLog2From(t + 1, m)

\* QubitCount without the factor 2: Math.ceil(Math.log2(Number(N)))
QubitCountLinear(n) == ceilLog2From(0, n)

QubitCount(n) == ceilLog2From(0, n * n)

\* scanCandidate keeping the first qualifying denominator (a break after the assignment)
RECURSIVE scanCandidateFirst(_, _, _, _)
scanCandidateFirst(convergents, k, n, candidateR) ==
    IF k > Len(convergents)
    THEN candidateR
    ELSE IF convergents[k].denominator > 0 /\ convergents[k].denominator < n
         THEN convergents[k].denominator
         ELSE scanCandidateFirst(convergents, k + 1, n, candidateR)

\* lines 149-155: the last convergent with 0 < denominator < N; 0 stands for null
RECURSIVE scanCandidate(_, _, _, _)

\* scanCandidate with the upper test reversed (denominator > N)
scanCandidateAbove(convergents, k, n, candidateR) ==
    IF k > Len(convergents)
    THEN candidateR
    ELSE scanCandidate(convergents, k + 1, n,
                       IF convergents[k].denominator > 0 /\ convergents[k].denominator > n
                       THEN convergents[k].denominator
                       ELSE candidateR)

scanCandidate(convergents, k, n, candidateR) ==
    IF k > Len(convergents)
    THEN candidateR
    ELSE scanCandidate(convergents, k + 1, n,
                       IF convergents[k].denominator > 0 /\ convergents[k].denominator < n
                       THEN convergents[k].denominator
                       ELSE candidateR)

CandidateR(convergents, n) == scanCandidate(convergents, 1, n, 0)

ErrNoCandidate == "Continued fraction expansion did not yield a suitable period candidate."
ErrOddPeriod == "The period 'r' is odd. A new base 'a' must be chosen."
ErrTrivial == "a^(r/2) = -1 (mod N). This gives a trivial factor. A new base 'a' must be chosen."
ErrTrivialFactors == "Calculated factors were trivial (1 or N)."

\* locals of one loop iteration that live across yields
NoLocals == [r |-> 0, s |-> 0, candidateR |-> 0, isPeriodOdd |-> FALSE, isTrivial |-> FALSE]

NoAttempt == [status |-> "none"]

NoCall == [fn |-> "none"]

Has(rec, field) == field \in DOMAIN rec

\* the state of App after construction (App.tsx lines 25-33) and of InputForm
\* (its error, part_001 line 29); null is "" for error, <<>> for finalFactors and 0
\* for currentN. attempts keeps the id and status of each attempt. sessions
\* counts the invocations of startFactorization that have not reached their
\* finally block, seen the records their loop body has handled.
NoApp ==
    [isLoading |-> FALSE, attempts |-> <<>>, error |-> "", finalFactors |-> <<>>,
     currentN |-> 0, formError |-> "", sessions |-> 0, seen |-> 0]

\* ---- the generator ----

Init ==
    /\ N \in InputN
    /\ pc = "start"
    /\ i = 0
    /\ attemptId = 0
    /\ currentAttempt = NoAttempt
    /\ loc = NoLocals
    /\ snaps = <<>>
    /\ call = NoCall
    /\ emitted = 0
    /\ app = NoApp

\* the generator suspends at a yield and hands the record to the consumer
Yield(rec, at) ==
    /\ currentAttempt' = rec
    /\ pc' = at
    /\ emitted' = emitted + 1

\* LoopHead giving up one iteration early (i < MAX_ATTEMPTS - 1)
LoopHeadOneLess(j) ==
    IF j < MAX_ATTEMPTS - 1
    THEN \E k \in 0 .. RandRes - 1 :
            LET rec == [id |-> attemptId + 1, n |-> N, a |-> PickBase(k, N),
                        status |-> "running"]
            IN  /\ i' = j
                /\ attemptId' = attemptId + 1
                /\ loc' = NoLocals
                /\ Yield(rec, "yieldInit")
                /\ snaps' = <<rec>>
    ELSE /\ i' = j
         /\ pc' = "done"
         /\ UNCHANGED <<attemptId, currentAttempt, loc, snaps, emitted>>

\* LoopHead with the loop test i <= MAX_ATTEMPTS
LoopHeadOneMore(j) ==
    IF j <= MAX_ATTEMPTS
    THEN \E k \in 0 .. RandRes - 1 :
            LET rec == [id |-> attemptId + 1, n |-> N, a |-> PickBase(k, N),
                        status |-> "running"]
            IN  /\ i' = j
                /\ attemptId' = attemptId + 1
                /\ loc' = NoLocals
                /\ Yield(rec, "yieldInit")
                /\ snaps' = <<rec>>
    ELSE /\ i' = j
         /\ pc' = "done"
         /\ UNCHANGED <<attemptId, currentAttempt, loc, snaps, emitted>>

\* lines 101-107: the loop test and the head of one iteration
LoopHead(j) ==
    IF j < MAX_ATTEMPTS
    THEN \E k \in 0 .. RandRes - 1 :
            LET rec == [id |-> attemptId + 1, n |-> N, a |-> PickBase(k, N),
                        status |-> "running"]
            IN  /\ i' = j
                /\ attemptId' = attemptId + 1
                /\ loc' = NoLocals
                /\ Yield(rec, "yieldInit")
                /\ snaps' = <<rec>>
    ELSE /\ i' = j
         /\ pc' = "done"
         /\ UNCHANGED <<attemptId, currentAttempt, loc, snaps, emitted>>

\* Begin without the parity test of line 94
BeginNoParity ==
    /\ pc = "start"
    /\ IF N <= 1
       THEN /\ pc' = "threw"
            /\ UNCHANGED <<i, attemptId, currentAttempt, loc, snaps, emitted>>
       ELSE LoopHead(0)
    /\ UNCHANGED <<app, call, N, call>>

\* first next(): lines 94-107
Begin ==
    /\ pc = "start"
    /\ IF N <= 1 \/ N % 2 = 0
       THEN /\ pc' = "threw"
            /\ UNCHANGED <<i, attemptId, currentAttempt, loc, snaps, emitted>>
       ELSE LoopHead(0)
    /\ UNCHANGED <<app, call, N, call>>

\* ResumeInit storing (g, N) as the factors, the division forgotten
ResumeInitNoDivision ==
    /\ pc = "yieldInit"
    /\ LET commonDivisor == gcd(currentAttempt.a, N)
           checked == currentAttempt @@ [gcdCheck |-> commonDivisor]
       IN  IF commonDivisor > 1
           THEN LET rec == [checked EXCEPT !.status = "success"]
                           @@ [factors |-> <<commonDivisor, N>>]
                IN  /\ Yield(rec, "yieldSuccess")
                    /\ snaps' = Append(snaps, rec)
           ELSE /\ Yield(checked, "yieldGcd")
                /\ snaps' = Append(snaps, checked)
    /\ UNCHANGED <<app, call, N, i, attemptId, loc>>

\* ResumeInit recording gcdCheck only when the divisor is above 1
ResumeInitGcdOnlyOnSuccess ==
    /\ pc = "yieldInit"
    /\ LET commonDivisor == gcd(currentAttempt.a, N)
       IN  IF commonDivisor > 1
           THEN LET rec == [currentAttempt EXCEPT !.status = "success"]
                           @@ [gcdCheck |-> commonDivisor,
                               factors |-> <<commonDivisor, N \div commonDivisor>>]
                IN  /\ Yield(rec, "yieldSuccess")
                    /\ snaps' = Append(snaps, rec)
           ELSE /\ Yield(currentAttempt, "yieldGcd")
                /\ snaps' = Append(snaps, currentAttempt)
    /\ UNCHANGED <<app, call, N, i, attemptId, loc>>

\* ResumeInit storing the factors as (N / g, g)
ResumeInitSwapped ==
    /\ pc = "yieldInit"
    /\ LET commonDivisor == gcd(currentAttempt.a, N)
           checked == currentAttempt @@ [gcdCheck |-> commonDivisor]
       IN  IF commonDivisor > 1
           THEN LET rec == [checked EXCEPT !.status = "success"]
                           @@ [factors |-> <<N \div commonDivisor, commonDivisor>>]
                IN  /\ Yield(rec, "yieldSuccess")
                    /\ snaps' = Append(snaps, rec)
           ELSE /\ Yield(checked, "yieldGcd")
                /\ snaps' = Append(snaps, checked)
    /\ UNCHANGED <<app, call, N, i, attemptId, loc>>

\* ResumeInit with the shortcut test commonDivisor >= 1
ResumeInitAtLeastOne ==
    /\ pc = "yieldInit"
    /\ LET commonDivisor == gcd(currentAttempt.a, N)
           checked == currentAttempt @@ [gcdCheck |-> commonDivisor]
       IN  IF commonDivisor >= 1
           THEN LET rec == [checked EXCEPT !.status = "success"]
                           @@ [factors |-> <<commonDivisor, N \div commonDivisor>>]
                IN  /\ Yield(rec, "yieldSuccess")
                    /\ snaps' = Append(snaps, rec)
           ELSE /\ Yield(checked, "yieldGcd")
                /\ snaps' = Append(snaps, checked)
    /\ UNCHANGED <<app, call, N, i, attemptId, loc>>

\* resumed after the yield of line 107: lines 108-120
ResumeInit ==
    /\ pc = "yieldInit"
    /\ LET commonDivisor == gcd(currentAttempt.a, N)
           checked == currentAttempt @@ [gcdCheck |-> commonDivisor]
       IN  IF commonDivisor > 1
           THEN LET rec == [checked EXCEPT !.status = "success"]
                           @@ [factors |-> <<commonDivisor, N \div commonDivisor>>]
                IN  /\ Yield(rec, "yieldSuccess")
                    /\ snaps' = Append(snaps, rec)
           ELSE /\ Yield(checked, "yieldGcd")
                /\ snaps' = Append(snaps, checked)
    /\ UNCHANGED <<app, call, N, i, attemptId, loc>>

\* resumed after the yield of line 120: lines 121-143
ResumeGcd ==
    /\ pc = "yieldGcd"
    /\ \E k \in 0 .. RandRes - 1 :
          LET a   == currentAttempt.a
              r   == FindOrder(a, N)
              t   == QubitCount(N)
              q   == 2 ^ t
              s   == PickS(k, r)
              c   == (s * q) \div r
              rec == currentAttempt @@ [quantumResult |-> [c |-> c, q |-> q, t |-> t]]
          IN  /\ loc' = [loc EXCEPT !.r = r, !.s = s]
              /\ Yield(rec, "yieldQuantum")
              /\ snaps' = Append(snaps, rec)
    /\ UNCHANGED <<app, call, N, i, attemptId>>

\* resumed after the yield of line 143: lines 144-166
ResumeQuantum ==
    /\ pc = "yieldQuantum"
    /\ LET convergents == getConvergents(currentAttempt.quantumResult.c,
                                         currentAttempt.quantumResult.q)
           candidateR  == CandidateR(convergents, N)
       IN  IF candidateR = 0
           THEN LET rec == [currentAttempt EXCEPT !.status = "failed"]
                           @@ [error |-> ErrNoCandidate]
                IN  /\ Yield(rec, "yieldFailed")
                    /\ snaps' = Append(snaps, rec)
                    /\ UNCHANGED loc
           ELSE LET rec == currentAttempt
                           @@ [fractionResult |-> [convergents |-> convergents,
                                                   candidateR |-> candidateR],
                               period |-> candidateR]
                IN  /\ Yield(rec, "yieldFraction")
                    /\ snaps' = Append(snaps, rec)
                    /\ loc' = [loc EXCEPT !.candidateR = candidateR]
    /\ UNCHANGED <<app, call, N, i, attemptId>>

\* ResumeFraction testing term - 1 in place of term + 1
ResumeFractionMinusOne ==
    /\ pc = "yieldFraction"
    /\ LET a           == currentAttempt.a
           period      == loc.candidateR
           isPeriodOdd == period % 2 # 0
           isTrivial   == IF ~isPeriodOdd
                          THEN (power(a, period \div 2, N) - 1) % N = 0
                          ELSE FALSE
           rec == currentAttempt
                  @@ [verification |-> [isPeriodOdd |-> isPeriodOdd, isTrivial |-> isTrivial]]
       IN  /\ loc' = [loc EXCEPT !.isPeriodOdd = isPeriodOdd, !.isTrivial = isTrivial]
           /\ Yield(rec, "yieldVerification")
           /\ snaps' = Append(snaps, rec)
    /\ UNCHANGED <<app, call, N, i, attemptId>>

\* ResumeFraction marking the attempt failed already in the verification snapshot
ResumeFractionEarlyFail ==
    /\ pc = "yieldFraction"
    /\ LET a           == currentAttempt.a
           period      == loc.candidateR
           isPeriodOdd == period % 2 # 0
           isTrivial   == IF ~isPeriodOdd
                          THEN (power(a, period \div 2, N) + 1) % N = 0
                          ELSE FALSE
           rec == [currentAttempt EXCEPT !.status = IF isPeriodOdd THEN "failed" ELSE @]
                  @@ [verification |-> [isPeriodOdd |-> isPeriodOdd, isTrivial |-> isTrivial]]
       IN  /\ loc' = [loc EXCEPT !.isPeriodOdd = isPeriodOdd, !.isTrivial = isTrivial]
           /\ Yield(rec, "yieldVerification")
           /\ snaps' = Append(snaps, rec)
    /\ UNCHANGED <<app, call, N, i, attemptId>>

\* resumed after the yield of line 166: lines 167-180
ResumeFraction ==
    /\ pc = "yieldFraction"
    /\ LET a           == currentAttempt.a
           period      == loc.candidateR
           isPeriodOdd == period % 2 # 0
           isTrivial   == IF ~isPeriodOdd
                          THEN (power(a, period \div 2, N) + 1) % N = 0
                          ELSE FALSE
           rec == currentAttempt
                  @@ [verification |-> [isPeriodOdd |-> isPeriodOdd, isTrivial |-> isTrivial]]
       IN  /\ loc' = [loc EXCEPT !.isPeriodOdd = isPeriodOdd, !.isTrivial = isTrivial]
           /\ Yield(rec, "yieldVerification")
           /\ snaps' = Append(snaps, rec)
    /\ UNCHANGED <<app, call, N, i, attemptId>>

\* ExtractFactors testing p2 before p1
ExtractFactorsP2First ==
    LET a      == currentAttempt.a
        period == loc.candidateR
        term   == power(a, period \div 2, N)
        p1     == gcd(term - 1, N)
        p2     == gcd(term + 1, N)
        withF  == currentAttempt @@ [factorizationResult |-> [term |-> term, p1 |-> p1, p2 |-> p2]]
    IN  IF p2 > 1 /\ p2 < N
        THEN [withF EXCEPT !.status = "success"] @@ [factors |-> <<p2, N \div p2>>]
        ELSE IF p1 > 1 /\ p1 < N
        THEN [withF EXCEPT !.status = "success"] @@ [factors |-> <<p1, N \div p1>>]
        ELSE [withF EXCEPT !.status = "failed"] @@ [error |-> ErrTrivialFactors]

\* ExtractFactors leaving the error unset when both factors are trivial
ExtractFactorsNoError ==
    LET a      == currentAttempt.a
        period == loc.candidateR
        term   == power(a, period \div 2, N)
        p1     == gcd(term - 1, N)
        p2     == gcd(term + 1, N)
        withF  == currentAttempt @@ [factorizationResult |-> [term |-> term, p1 |-> p1, p2 |-> p2]]
    IN  IF p1 > 1 /\ p1 < N
        THEN [withF EXCEPT !.status = "success"] @@ [factors |-> <<p1, N \div p1>>]
        ELSE IF p2 > 1 /\ p2 < N
        THEN [withF EXCEPT !.status = "success"] @@ [factors |-> <<p2, N \div p2>>]
        ELSE [withF EXCEPT !.status = "failed"]

\* ExtractFactors accepting p1 = 1 (p1 >= 1 in place of p1 > 1)
ExtractFactorsLoose ==
    LET a      == currentAttempt.a
        period == loc.candidateR
        term   == power(a, period \div 2, N)
        p1     == gcd(term - 1, N)
        p2     == gcd(term + 1, N)
        withF  == currentAttempt @@ [factorizationResult |-> [term |-> term, p1 |-> p1, p2 |-> p2]]
    IN  IF p1 >= 1 /\ p1 < N
        THEN [withF EXCEPT !.status = "success"] @@ [factors |-> <<p1, N \div p1>>]
        ELSE IF p2 > 1 /\ p2 < N
        THEN [withF EXCEPT !.status = "success"] @@ [factors |-> <<p2, N \div p2>>]
        ELSE [withF EXCEPT !.status = "failed"] @@ [error |-> ErrTrivialFactors]

\* lines 197-219: factor extraction
ExtractFactors ==
    LET a      == currentAttempt.a
        period == loc.candidateR
        term   == power(a, period \div 2, N)
        p1     == gcd(term - 1, N)
        p2     == gcd(term + 1, N)
        withF  == currentAttempt @@ [factorizationResult |-> [term |-> term, p1 |-> p1, p2 |-> p2]]
    IN  IF p1 > 1 /\ p1 < N
        THEN [withF EXCEPT !.status = "success"] @@ [factors |-> <<p1, N \div p1>>]
        ELSE IF p2 > 1 /\ p2 < N
        THEN [withF EXCEPT !.status = "success"] @@ [factors |-> <<p2, N \div p2>>]
        ELSE [withF EXCEPT !.status = "failed"] @@ [error |-> ErrTrivialFactors]

\* ResumeVerification with the two error texts exchanged
ResumeVerificationSwappedErrors ==
    /\ pc = "yieldVerification"
    /\ LET rec == IF loc.isPeriodOdd
                  THEN [currentAttempt EXCEPT !.status = "failed"] @@ [error |-> ErrTrivial]
                  ELSE IF loc.isTrivial
                  THEN [currentAttempt EXCEPT !.status = "failed"] @@ [error |-> ErrOddPeriod]
                  ELSE ExtractFactors
       IN  /\ Yield(rec, IF rec.status = "success" THEN "yieldSuccess" ELSE "yieldFailed")
           /\ snaps' = Append(snaps, rec)
    /\ UNCHANGED <<app, call, N, i, attemptId, loc>>

\* ResumeVerification retrying an odd period without yielding the failed record
ResumeVerificationSilent ==
    /\ pc = "yieldVerification"
    /\ IF loc.isPeriodOdd
       THEN LoopHead(i + 1)
       ELSE LET rec == IF loc.isTrivial
                       THEN [currentAttempt EXCEPT !.status = "failed"] @@ [error |-> ErrTrivial]
                       ELSE ExtractFactors
            IN  /\ Yield(rec, IF rec.status = "success" THEN "yieldSuccess" ELSE "yieldFailed")
                /\ snaps' = Append(snaps, rec)
                /\ UNCHANGED <<i, attemptId, loc>>
    /\ UNCHANGED <<app, call, N, call>>

\* resumed after the yield of line 180: lines 181-219
ResumeVerification ==
    /\ pc = "yieldVerification"
    /\ LET rec == IF loc.isPeriodOdd
                  THEN [currentAttempt EXCEPT !.status = "failed"] @@ [error |-> ErrOddPeriod]
                  ELSE IF loc.isTrivial
                  THEN [currentAttempt EXCEPT !.status = "failed"] @@ [error |-> ErrTrivial]
                  ELSE ExtractFactors
       IN  /\ Yield(rec, IF rec.status = "success" THEN "yieldSuccess" ELSE "yieldFailed")
           /\ snaps' = Append(snaps, rec)
    /\ UNCHANGED <<app, call, N, i, attemptId, loc>>

\* ResumeFailed starting the next iteration without i++
ResumeFailedRetry ==
    /\ pc = "yieldFailed"
    /\ LoopHead(i)
    /\ UNCHANGED <<app, call, N, call>>

\* resumed after the yield of line 160, 186, 193 or 219: continue, i++, lines 101-107
ResumeFailed ==
    /\ pc = "yieldFailed"
    /\ LoopHead(i + 1)
    /\ UNCHANGED <<app, call, N, call>>

\* ResumeSuccess going on to the next iteration in place of returning
ResumeSuccessContinue ==
    /\ pc = "yieldSuccess"
    /\ LoopHead(i + 1)
    /\ UNCHANGED <<app, call, N, call>>

\* resumed after the yield of line 117, 206 or 212: return
ResumeSuccess ==
    /\ pc = "yieldSuccess"
    /\ pc' = "done"
    /\ UNCHANGED <<app, call, N, i, attemptId, currentAttempt, loc, snaps, emitted>>

Next ==
    \/ Begin
    \/ ResumeInit
    \/ ResumeGcd
    \/ ResumeQuantum
    \/ ResumeFraction
    \/ ResumeVerification
    \/ ResumeFailed
    \/ ResumeSuccess

Spec == Init /\ [][Next]_vars

\* the consumer keeps pulling: every pending resumption of the generator is
\* eventually taken (each await of lines 108-196 is a finite timer)
LiveInit == Init /\ N \in 0 .. MaxLiveN

LiveSpec == LiveInit /\ [][Next]_vars /\ WF_vars(Next)

\* ---- the kernel functions called directly ----

\* the arguments of the direct calls are 0 .. MaxArg
MaxArg == 12

\* the number of iterations of the loop of gcd, lines 20-22
RECURSIVE gcdSteps(_, _)
gcdSteps(a, b) == IF b = 0 THEN 0 ELSE 1 + gcdSteps(b, a % b)

KernelInit ==
    /\ N = 0
    /\ pc = "kernel"
    /\ i = 0
    /\ attemptId = 0
    /\ currentAttempt = NoAttempt
    /\ loc = NoLocals
    /\ snaps = <<>>
    /\ call = NoCall
    /\ emitted = 0
    /\ app = NoApp

\* gcd(a, b), lines 19-24
CallGcd ==
    /\ call = NoCall
    /\ \E a, b \in 0 .. MaxArg :
          call' = [fn |-> "gcd", args |-> <<a, b>>, ret |-> gcd(a, b)]
    /\ UNCHANGED <<app, N, pc, i, attemptId, currentAttempt, loc, snaps, emitted>>

\* power(base, exp, mod), lines 33-42, for mod >= 1
CallPower ==
    /\ call = NoCall
    /\ \E base, exp \in 0 .. MaxArg, mod \in 1 .. MaxArg :
          call' = [fn |-> "power", args |-> <<base, exp, mod>>, ret |-> power(base, exp, mod)]
    /\ UNCHANGED <<app, N, pc, i, attemptId, currentAttempt, loc, snaps, emitted>>

\* getConvergents(c, q), lines 50-84, for c >= 0 and q >= 1
CallGetConvergents ==
    /\ call = NoCall
    /\ \E c \in 0 .. MaxArg, q \in 1 .. MaxArg :
          call' = [fn |-> "getConvergents", args |-> <<c, q>>, ret |-> getConvergents(c, q)]
    /\ UNCHANGED <<app, N, pc, i, attemptId, currentAttempt, loc, snaps, emitted>>

\* floor(s * 2^t / r) for 0 <= s < r, one binary digit at a time: the exact
\* BigInt quotient of line 140 for operands whose product s * q is wider than
\* the integers of the model
RECURSIVE scaleLoop(_, _, _, _)
scaleLoop(c, rem, k, r) ==
    IF k = 0
    THEN c
    ELSE scaleLoop(2 * c + (IF 2 * rem >= r THEN 1 ELSE 0), (2 * rem) % r, k - 1, r)

ScaledQuotient(s, t, r) == scaleLoop(0, s, t, r)

\* what the loop of lines 126-131 returns for gcd(a, n) = 1: the least r >= 1
\* with a^r = 1 (mod n), told by a^r = 1 and a^(r/d) # 1 for every divisor
\* d > 1 of r
OrderIs(r, a, n) ==
    /\ power(a, r, n) = 1
    /\ {d \in 2 .. r : r % d = 0 /\ power(a, r \div d, n) = 1} = {}

\* a prime of the supported range with t = 26, two of its bases and a window
\* of the values of s (Math.random() reaches every s in [1, r-1])
MeasuredN == {6317}

MeasuredBase == {2, 3}

MeasuredS == 3885 .. 3900

\* lines 123-148 for a base that passed the gcd check: the measurement
\* (c, q, t) of lines 126-141 and the convergents of line 148
CallMeasure ==
    /\ call = NoCall
    /\ \E n \in MeasuredN, a \in MeasuredBase :
          /\ gcd(a, n) = 1
          /\ \E r \in {(n - 1) \div 2, n - 1} :
                /\ OrderIs(r, a, n)
                /\ \E s \in MeasuredS :
                      /\ s \in 1 .. r - 1
                      /\ LET t == QubitCount(n)
                             q == 2 ^ t
                             c == ScaledQuotient(s, t, r)
                         IN  call' = [fn |-> "measure", args |-> <<n, a, s>>,
                                      ret |-> [r |-> r, c |-> c, q |-> q, t |-> t,
                                               convergents |-> getConvergents(c, q)]]
    /\ UNCHANGED <<app, N, pc, i, attemptId, currentAttempt, loc, snaps, emitted>>

KernelNext ==
    \/ CallGcd
    \/ CallPower
    \/ CallGetConvergents
    \/ CallMeasure

KernelSpec == KernelInit /\ [][KernelNext]_vars

\* ---- the App consumer ----

\* the greatest value InputForm accepts (part_001 line 40)
MaxInput == 100000

\* the numbers parseInt can read from the input field; text that is not a
\* number gives NaN and takes the branch of n <= 3
FormInput == -1 .. MaxN

\* App.tsx lines 78-97: the synchronous head of startFactorization, up to the
\* creation of the generator by runShor(N, t); no code of runShor runs before
\* the first pull
startFactorization(nToFactor) ==
    IF nToFactor <= 1
    THEN /\ app' = [app EXCEPT !.formError = "", !.error = "errorNumberTooSmall"]
         /\ UNCHANGED <<N, pc, i, attemptId, currentAttempt, loc, snaps, emitted>>
    ELSE IF nToFactor % 2 = 0
         THEN /\ app' = [app EXCEPT !.formError = "", !.error = "errorNumberEven",
                                    !.finalFactors = <<2, nToFactor \div 2>>]
              /\ UNCHANGED <<N, pc, i, attemptId, currentAttempt, loc, snaps, emitted>>
         ELSE /\ app' = [isLoading |-> TRUE, attempts |-> <<>>, error |-> "",
                         finalFactors |-> <<>>, currentN |-> nToFactor,
                         formError |-> "", sessions |-> app.sessions + 1, seen |-> 0]
              /\ N' = nToFactor
              /\ pc' = "start"
              /\ i' = 0
              /\ attemptId' = 0
              /\ currentAttempt' = NoAttempt
              /\ loc' = NoLocals
              /\ snaps' = <<>>
              /\ emitted' = 0

\* handleSubmit without the parity test of lines 44-47
handleSubmitNoParity ==
    /\ ~app.isLoading
    /\ \E n \in FormInput :
          IF n <= 3 \/ n > MaxInput
          THEN /\ app' = [app EXCEPT !.formError = "errorNumberRange"]
               /\ UNCHANGED <<N, pc, i, attemptId, currentAttempt, loc, snaps, emitted>>
          ELSE startFactorization(n)
    /\ UNCHANGED call

\* part_001 lines 37-50; the form can be submitted only while isLoading is
\* false (input and button are disabled otherwise, lines 65 and 69)
handleSubmit ==
    /\ ~app.isLoading
    /\ \E n \in FormInput :
          IF n <= 3 \/ n > MaxInput
          THEN /\ app' = [app EXCEPT !.formError = "errorNumberRange"]
               /\ UNCHANGED <<N, pc, i, attemptId, currentAttempt, loc, snaps, emitted>>
          ELSE IF n % 2 = 0
               THEN /\ app' = [app EXCEPT !.formError = "errorNumberEven"]
                    /\ UNCHANGED <<N, pc, i, attemptId, currentAttempt, loc, snaps, emitted>>
               ELSE startFactorization(n)
    /\ UNCHANGED call

\* the for await of line 100 asks the generator for its next record: the loop
\* body has handled every record yielded so far
Awaiting == app.isLoading /\ app.seen = emitted

PullBegin == Awaiting /\ Begin

PullInit == Awaiting /\ ResumeInit

PullGcd == Awaiting /\ ResumeGcd

PullQuantum == Awaiting /\ ResumeQuantum

PullFraction == Awaiting /\ ResumeFraction

PullVerification == Awaiting /\ ResumeVerification

PullFailed == Awaiting /\ ResumeFailed

\* lines 102-112: the record of the same id is replaced, a new id is appended
UpdateAttempts(prev, attempt) ==
    LET entry == [id |-> attempt.id, status |-> attempt.status]
    IN  IF \E k \in 1 .. Len(prev) : prev[k].id = attempt.id
        THEN [k \in 1 .. Len(prev) |-> IF prev[k].id = attempt.id THEN entry ELSE prev[k]]
        ELSE Append(prev, entry)

\* lines 100-119 for one yielded record; the break of line 117 ends the
\* generator at its yield (return()) and runs the finally block of lines 122-124
Consume ==
    /\ app.isLoading
    /\ app.seen < emitted
    /\ LET attempt == currentAttempt
           handled == [app EXCEPT !.attempts = UpdateAttempts(app.attempts, attempt),
                                  !.seen = emitted]
       IN  IF attempt.status = "success" /\ Has(attempt, "factors")
           THEN /\ app' = [handled EXCEPT !.finalFactors = attempt.factors,
                                          !.isLoading = FALSE,
                                          !.sessions = app.sessions - 1]
                /\ pc' = "done"
           ELSE /\ app' = handled
                /\ UNCHANGED pc
    /\ UNCHANGED <<N, i, attemptId, currentAttempt, loc, snaps, emitted, call>>

\* lines 120-124: the generator has ended or thrown; catch and finally
SessionEnd ==
    /\ Awaiting
    /\ pc \in {"done", "threw"}
    /\ app' = [app EXCEPT !.error = IF pc = "threw" THEN "errorInvalidInput" ELSE app.error,
                          !.isLoading = FALSE,
                          !.sessions = app.sessions - 1]
    /\ UNCHANGED <<N, pc, i, attemptId, currentAttempt, loc, snaps, emitted, call>>

AppInit ==
    /\ N = 0
    /\ pc = "none"
    /\ i = 0
    /\ attemptId = 0
    /\ currentAttempt = NoAttempt
    /\ loc = NoLocals
    /\ snaps = <<>>
    /\ call = NoCall
    /\ emitted = 0
    /\ app = NoApp

AppNext ==
    \/ handleSubmit
    \/ PullBegin
    \/ PullInit
    \/ PullGcd
    \/ PullQuantum
    \/ PullFraction
    \/ PullVerification
    \/ PullFailed
    \/ Consume
    \/ SessionEnd

AppSpec == AppInit /\ [][AppNext]_vars

TypeOK ==
    /\ N \in InputN
    /\ i \in 0 .. MAX_ATTEMPTS
    /\ attemptId \in 0 .. MAX_ATTEMPTS

\* ---- properties ----

Yielded == {snaps[j] : j \in 1 .. Len(snaps)}

LastSnap == snaps[Len(snaps)]

ValidN == N > 1 /\ N % 2 = 1

\* C1: every yielded record with status success carries a pair of factors
\* (f0, f1) with f0 * f1 = n and 1 < f0 < n, 1 < f1 < n, whether the success
\* came from the gcd shortcut or from factor extraction.
C1_SuccessFactorsMultiply ==
    \A rec \in Yielded :
        rec.status = "success" =>
            /\ Has(rec, "factors")
            /\ Len(rec.factors) = 2
            /\ rec.factors[1] * rec.factors[2] = N
            /\ 1 < rec.factors[1] /\ rec.factors[1] < N
            /\ 1 < rec.factors[2] /\ rec.factors[2] < N

\* a success of factor extraction that took the second branch (p1 = 1)
C1_Witness ==
    /\ snaps # <<>>
    /\ LastSnap.status = "success"
    /\ Has(LastSnap, "factorizationResult")
    /\ LastSnap.factorizationResult.p1 = 1

\* C2: for n <= 1 or n even the first pull raises and no record is ever
\* yielded.
C2_InvalidInputThrows ==
    (N <= 1 \/ N % 2 = 0) =>
        /\ snaps = <<>>
        /\ currentAttempt = NoAttempt
        /\ pc \in {"start", "threw"}

C2_Witness == N = 10 /\ pc = "threw"

\* C3: a success record is the last record of the session: the pull after it
\* ends the sequence and no further record is yielded.
C3_SuccessIsLast ==
    [][(snaps # <<>> /\ LastSnap.status = "success") =>
            /\ snaps' = snaps
            /\ currentAttempt' = currentAttempt
            /\ pc' = "done"]_vars

C3_Witness == pc = "done" /\ snaps # <<>> /\ LastSnap.status = "success"

\* C4: the first record has id 1, each next record has the id of the previous
\* one or that id plus 1, no record has an id above 10, and every record's n is
\* the input n.
C4_IdsStep ==
    /\ [](\A rec \in Yielded : rec.id >= 1 /\ rec.id <= 10 /\ rec.n = N)
    /\ [][snaps' # snaps =>
            IF snaps = <<>>
            THEN snaps'[Len(snaps')].id = 1
            ELSE \/ snaps'[Len(snaps')].id = LastSnap.id
                 \/ snaps'[Len(snaps')].id = LastSnap.id + 1]_vars

C4_Witness == snaps # <<>> /\ LastSnap.id = 10 /\ Len(snaps) > 1

\* C5: a record with id k+1 is yielded only when the last record yielded
\* before it has id k, status failed and its error set, so that no attempt
\* starts while the one before it is still running and no retry happens without
\* its failed record having been yielded.
C5_NextAttemptAfterFailedRecord ==
    [][(snaps # <<>> /\ snaps' # snaps /\ snaps'[Len(snaps')].id # LastSnap.id) =>
            /\ snaps'[Len(snaps')].id = LastSnap.id + 1
            /\ LastSnap.status = "failed"
            /\ Has(LastSnap, "error")]_vars

C5_Witness == snaps # <<>> /\ LastSnap.id = 2 /\ pc = "yieldInit"

\* C6: in every yielded record factors is present iff status is success and
\* error is present iff status is failed; a running record has neither.
C6_TerminalFieldsMatchStatus ==
    \A rec \in Yielded :
        /\ Has(rec, "factors") <=> rec.status = "success"
        /\ Has(rec, "error") <=> rec.status = "failed"
        /\ rec.status \in {"running", "failed", "success"}

\* an attempt that failed in factor extraction
C6_Witness ==
    /\ snaps # <<>>
    /\ LastSnap.status = "failed"
    /\ Has(LastSnap, "factorizationResult")

\* the intermediate optional fields in the order of the record
StageFields ==
    <<"gcdCheck", "quantumResult", "fractionResult", "period", "verification",
      "factorizationResult">>

\* C7: the intermediate optional fields present in a yielded record form a
\* prefix of gcdCheck, quantumResult, fractionResult, period, verification,
\* factorizationResult; factors or error is present without all of them only
\* when an earlier check ended the attempt.
C7_FieldsFormPrefix ==
    \A rec \in Yielded :
        /\ \A j, k \in 1 .. Len(StageFields) :
              (j < k /\ Has(rec, StageFields[k])) => Has(rec, StageFields[j])
        /\ (Has(rec, "factors") /\ ~Has(rec, "factorizationResult")) =>
              (Has(rec, "gcdCheck") /\ rec.gcdCheck > 1 /\ ~Has(rec, "quantumResult"))
        /\ (Has(rec, "error") /\ ~Has(rec, "factorizationResult")) =>
              \/ Has(rec, "verification")
                 /\ (rec.verification.isPeriodOdd \/ rec.verification.isTrivial)
              \/ Has(rec, "quantumResult") /\ ~Has(rec, "fractionResult")
                 /\ rec.error = ErrNoCandidate

\* an attempt ended by the verification: error without factorizationResult
C7_Witness ==
    /\ snaps # <<>>
    /\ Has(LastSnap, "error")
    /\ Has(LastSnap, "verification")
    /\ ~Has(LastSnap, "factorizationResult")

IsTerminal(rec) == rec.status \in {"failed", "success"}

\* C8: the first snapshot of an attempt is running with only id, n and base;
\* all snapshots of the attempt carry its id and all but the last are running;
\* once the terminal snapshot is yielded the record of that id is not written
\* again and no further snapshot carries that id.
C8_AttemptLifecycle ==
    /\ [](snaps # <<>> =>
            /\ DOMAIN snaps[1] = {"id", "n", "a", "status"}
            /\ snaps[1].status = "running"
            /\ \A j \in 1 .. Len(snaps) : snaps[j].id = attemptId
            /\ \A j \in 1 .. Len(snaps) - 1 : snaps[j].status = "running"
            /\ currentAttempt = LastSnap)
    /\ [][(snaps # <<>> /\ IsTerminal(LastSnap)) =>
            \/ snaps' = snaps /\ currentAttempt' = currentAttempt
            \/ \A j \in 1 .. Len(snaps') : snaps'[j].id # LastSnap.id]_vars

\* a terminal snapshot that is the sixth of its attempt
C8_Witness == Len(snaps) = 6 /\ IsTerminal(LastSnap) /\ pc = "done"

\* C9: for odd n > 1 the base of every attempt lies in 2 .. n-1 and every
\* integer of 2 .. n-1 is a base the draw of line 104 can produce.
C9_BaseRange ==
    (ValidN /\ snaps # <<>>) =>
        /\ \A rec \in Yielded : rec.a >= 2 /\ rec.a <= N - 1
        /\ {PickBase(k, N) : k \in 0 .. RandRes - 1} = 2 .. (N - 1)

\* an attempt whose base is n - 1, n >= 5
C9_Witness == snaps # <<>> /\ N >= 5 /\ LastSnap.a = N - 1

\* the greatest common divisor, by its definition
GreatestCommonDivisor(x, y) ==
    CHOOSE d \in 1 .. y :
        /\ x % d = 0 /\ y % d = 0
        /\ \A e \in 1 .. y : (x % e = 0 /\ y % e = 0) => e <= d

\* C10: with g the greatest common divisor of base and n, the second snapshot
\* of an attempt has gcdCheck = g; when g > 1 it has status success and
\* factors (g, n/g), it is the last snapshot of the attempt, carries none of the
\* later stage fields, and the session ends on the next pull; when g = 1 it has
\* status running.
C10_GcdShortcut ==
    /\ [](Len(snaps) >= 2 =>
            LET g == GreatestCommonDivisor(snaps[1].a, N)
            IN  /\ snaps[2].gcdCheck = g
                /\ IF g > 1
                   THEN /\ snaps[2].status = "success"
                        /\ snaps[2].factors = <<g, N \div g>>
                        /\ DOMAIN snaps[2] = {"id", "n", "a", "status", "gcdCheck", "factors"}
                        /\ Len(snaps) = 2
                        /\ pc \in {"yieldSuccess", "done"}
                   ELSE /\ snaps[2].status = "running"
                        /\ DOMAIN snaps[2] = {"id", "n", "a", "status", "gcdCheck"})
    /\ [][(Len(snaps) = 2 /\ snaps[2].gcdCheck > 1) =>
            (pc' = "done" /\ snaps' = snaps)]_vars

\* a session ended by the gcd shortcut in its third attempt
C10_Witness ==
    /\ Len(snaps) = 2
    /\ snaps[2].gcdCheck > 1
    /\ snaps[2].id = 3
    /\ pc = "done"

\* C11: a session that ends without a success record has made exactly 10
\* attempts: its last record has id 10 and status failed, the loop counter has
\* reached 10, and the generator returned without raising; for valid n the
\* generator never raises.
C11_ExhaustionAfterTenAttempts ==
    /\ (ValidN /\ pc = "done" /\ LastSnap.status # "success") =>
          /\ LastSnap.id = MAX_ATTEMPTS
          /\ LastSnap.status = "failed"
          /\ i = MAX_ATTEMPTS
          /\ attemptId = MAX_ATTEMPTS
    /\ (ValidN /\ pc = "done" /\ LastSnap.id < MAX_ATTEMPTS) => LastSnap.status = "success"
    /\ ValidN => pc # "threw"

\* a session that ended after ten failed attempts
C11_Witness == pc = "done" /\ LastSnap.id = 10 /\ LastSnap.status = "failed"

\* the indices of the convergents whose denominator d has 0 < d < n
Qualifying(convergents, n) ==
    {k \in 1 .. Len(convergents) :
        convergents[k].denominator > 0 /\ convergents[k].denominator < n}

MaxOf(S) == CHOOSE x \in S : \A y \in S : y <= x

\* C12: a recorded candidateR is the denominator of the last convergent, in
\* expansion order, whose denominator d has 0 < d < n; period equals it and is
\* set in the same snapshot, with the whole list of convergents of c/q.
C12_LastQualifyingConvergent ==
    \A j \in 1 .. Len(snaps) :
        LET rec == snaps[j]
        IN  /\ Has(rec, "fractionResult") <=> Has(rec, "period")
            /\ Has(rec, "fractionResult") =>
                  LET cs == rec.fractionResult.convergents
                  IN  /\ Qualifying(cs, N) # {}
                      /\ rec.fractionResult.candidateR
                            = cs[MaxOf(Qualifying(cs, N))].denominator
                      /\ rec.period = rec.fractionResult.candidateR
                      /\ cs = getConvergents(rec.quantumResult.c, rec.quantumResult.q)

\* a candidate that differs from the first qualifying denominator
C12_Witness ==
    /\ snaps # <<>>
    /\ Has(LastSnap, "fractionResult")
    /\ Cardinality(Qualifying(LastSnap.fractionResult.convergents, N)) >= 3
    /\ LastSnap.fractionResult.candidateR
          # LastSnap.fractionResult.convergents[1].denominator

IsPrime(n) == n > 1 /\ \A d \in 2 .. n - 1 : n % d # 0

FactorSet(rec) == {rec.factors[1], rec.factors[2]}

\* C13: for every odd composite n some outcome of the draws reaches a success
\* record whose factors multiply to n: the first draw can give a base that
\* shares a factor with n, and from such a base the next pull yields the
\* success record; for n = 15 the factors are {3, 5}, for n = 21 {3, 7}.
C13_SuccessPossible ==
    /\ (pc = "start" /\ ValidN /\ ~IsPrime(N)) =>
          ENABLED (Begin /\ GreatestCommonDivisor(currentAttempt'.a, N) > 1)
    /\ (pc = "yieldInit" /\ GreatestCommonDivisor(currentAttempt.a, N) > 1) =>
          ENABLED (/\ ResumeInit
                   /\ currentAttempt'.status = "success"
                   /\ currentAttempt'.factors[1] * currentAttempt'.factors[2] = N
                   /\ N = 15 => FactorSet(currentAttempt') = {3, 5}
                   /\ N = 21 => FactorSet(currentAttempt') = {3, 7})
    /\ (N \in {15, 21} /\ snaps # <<>> /\ LastSnap.status = "success") =>
          FactorSet(LastSnap) = IF N = 15 THEN {3, 5} ELSE {3, 7}

\* n = 21 factored by factor extraction
C13_Witness ==
    /\ N = 21
    /\ snaps # <<>>
    /\ LastSnap.status = "success"
    /\ Has(LastSnap, "factorizationResult")
    /\ FactorSet(LastSnap) = {3, 7}

\* C14: for valid n the generator never raises, every failure is in the error
\* of the terminal record of its attempt, and the error names the check that
\* failed: odd period iff verification.isPeriodOdd; trivial result iff the
\* period is even and verification.isTrivial; trivial factors iff
\* factorizationResult is present with neither p1 nor p2 strictly between 1 and
\* n; no period candidate iff no convergent of c/q has 0 < denominator < n.
C14_ErrorNamesFailedCheck ==
    /\ ValidN => pc # "threw"
    /\ \A rec \in Yielded :
          /\ rec.status = "failed" =>
                rec.error \in {ErrNoCandidate, ErrOddPeriod, ErrTrivial, ErrTrivialFactors}
          /\ IsTerminal(rec) =>
                /\ (Has(rec, "error") /\ rec.error = ErrOddPeriod)
                      <=> (Has(rec, "verification") /\ rec.verification.isPeriodOdd)
                /\ (Has(rec, "error") /\ rec.error = ErrTrivial)
                      <=> (/\ Has(rec, "verification")
                           /\ rec.period % 2 = 0
                           /\ rec.verification.isTrivial)
                /\ (Has(rec, "error") /\ rec.error = ErrTrivialFactors)
                      <=> (/\ Has(rec, "factorizationResult")
                           /\ ~(1 < rec.factorizationResult.p1 /\ rec.factorizationResult.p1 < N)
                           /\ ~(1 < rec.factorizationResult.p2 /\ rec.factorizationResult.p2 < N))
                /\ (Has(rec, "error") /\ rec.error = ErrNoCandidate)
                      <=> (/\ Has(rec, "quantumResult")
                           /\ Qualifying(getConvergents(rec.quantumResult.c,
                                                        rec.quantumResult.q), N) = {})

\* an attempt failed by the trivial-result check
C14_Witness ==
    /\ snaps # <<>>
    /\ LastSnap.status = "failed"
    /\ LastSnap.error = ErrTrivial

\* base^k mod n by k successive multiplications
RECURSIVE PowMod(_, _, _)
PowMod(a, k, n) == IF k = 0 THEN 1 % n ELSE (a * PowMod(a, k - 1, n)) % n

\* p is the least positive exponent with a^p = 1 (mod n)
IsOrder(p, a, n) ==
    /\ p >= 1
    /\ PowMod(a, p, n) = 1 % n
    /\ \A k \in 1 .. p - 1 : PowMod(a, k, n) # 1 % n

\* C15: a recorded period is the period of f(x) = base^x mod n: base^period = 1
\* (mod n) and no smaller positive exponent has that property.
C15_PeriodIsOrder ==
    \A rec \in Yielded : Has(rec, "period") => IsOrder(rec.period, rec.a, N)

\* C16: a recorded measurement (c, q, t) has q = 2^t with t the least integer
\* such that 2^t >= n^2, and c = floor(s * q / r) where r is the multiplicative
\* order of base modulo n and s is the drawn integer, 1 <= s <= r - 1; hence
\* 0 < c < q.
C16_Measurement ==
    Has(currentAttempt, "quantumResult") =>
        LET m == currentAttempt.quantumResult
        IN  /\ m.q = 2 ^ m.t
            /\ m.q >= N * N
            /\ m.t >= 1 /\ 2 ^ (m.t - 1) < N * N
            /\ IsOrder(loc.r, currentAttempt.a, N)
            /\ 1 <= loc.s /\ loc.s <= loc.r - 1
            /\ m.c = (loc.s * m.q) \div loc.r
            /\ 0 < m.c /\ m.c < m.q
            /\ \A rec \in Yielded : Has(rec, "quantumResult") => rec.quantumResult = m

\* a measurement drawn with the largest s of an order above 2
C16_Witness ==
    /\ Has(currentAttempt, "quantumResult")
    /\ loc.r >= 3
    /\ loc.s = loc.r - 1

\* C17: in a recorded verification isPeriodOdd holds iff period is odd; for an
\* even period isTrivial holds iff base^(period/2) mod n plus 1 is divisible by
\* n; for an odd period isTrivial is false.  The snapshot that first carries the
\* verification is running, and the pull after it yields the failed record
\* when isPeriodOdd or isTrivial holds.
C17_Verification ==
    /\ [](\A j \in 1 .. Len(snaps) :
            LET rec == snaps[j]
            IN  Has(rec, "verification") =>
                  /\ rec.verification.isPeriodOdd <=> rec.period % 2 = 1
                  /\ rec.period % 2 = 0 =>
                        (rec.verification.isTrivial
                            <=> (PowMod(rec.a, rec.period \div 2, N) + 1) % N = 0)
                  /\ rec.period % 2 = 1 => ~rec.verification.isTrivial
                  /\ ~Has(snaps[j - 1], "verification") => rec.status = "running"
                  /\ (j < Len(snaps)
                      /\ (rec.verification.isPeriodOdd \/ rec.verification.isTrivial)) =>
                        (snaps[j + 1].status = "failed" /\ j + 1 = Len(snaps)))
    /\ [][(pc = "yieldVerification"
           /\ (currentAttempt.verification.isPeriodOdd
               \/ currentAttempt.verification.isTrivial)) =>
              (currentAttempt'.status = "failed" /\ snaps' = Append(snaps, currentAttempt'))]_vars

\* an attempt failed one snapshot after a verification with an odd period
C17_Witness ==
    /\ Len(snaps) = 6
    /\ snaps[5].status = "running"
    /\ snaps[5].verification.isPeriodOdd
    /\ snaps[6].status = "failed"

\* C18: factorizationResult is present only after a verification with an even
\* period that is not trivial; then term = base^(period/2) mod n,
\* p1 = gcd(term - 1, n), p2 = gcd(term + 1, n); the record is terminal; with
\* 1 < p1 < n it is a success with factors (p1, n/p1) whatever p2 is, else with
\* 1 < p2 < n a success with factors (p2, n/p2), else failed.  An attempt with
\* n = 15 and base 4 ends as a success with factors (3, 5).
C18_FactorExtraction ==
    \A rec \in Yielded :
        /\ Has(rec, "factorizationResult") =>
              LET f    == rec.factorizationResult
                  term == PowMod(rec.a, rec.period \div 2, N)
              IN  /\ Has(rec, "verification")
                  /\ ~rec.verification.isPeriodOdd
                  /\ ~rec.verification.isTrivial
                  /\ rec.period % 2 = 0
                  /\ f.term = term
                  /\ (term + 1) % N # 0
                  /\ f.p1 = GreatestCommonDivisor(term - 1, N)
                  /\ f.p2 = GreatestCommonDivisor(term + 1, N)
                  /\ IsTerminal(rec)
                  /\ IF 1 < f.p1 /\ f.p1 < N
                     THEN rec.status = "success" /\ rec.factors = <<f.p1, N \div f.p1>>
                     ELSE IF 1 < f.p2 /\ f.p2 < N
                     THEN rec.status = "success" /\ rec.factors = <<f.p2, N \div f.p2>>
                     ELSE rec.status = "failed"
        /\ (N = 15 /\ rec.a = 4 /\ IsTerminal(rec)) =>
              (rec.status = "success" /\ rec.factors = <<3, 5>>)

\* a success through p1 while p2 is a non-trivial factor too
C18_Witness ==
    /\ snaps # <<>>
    /\ Has(LastSnap, "factorizationResult")
    /\ 1 < LastSnap.factorizationResult.p1 /\ LastSnap.factorizationResult.p1 < N
    /\ 1 < LastSnap.factorizationResult.p2 /\ LastSnap.factorizationResult.p2 < N
    /\ LastSnap.factors[1] = LastSnap.factorizationResult.p1

\* d divides x; every integer divides 0
Divides(d, x) == \E k \in 0 .. x : x = k * d

\* C19: for a, b >= 0 gcd(a, b) = gcd(b, a), gcd(a, 0) = a, the loop ends
\* (after at most b iterations), and the result divides a and b and is divided
\* by every common divisor of a and b.
C19_GcdIsGreatestCommonDivisor ==
    call.fn = "gcd" =>
        LET a == call.args[1]
            b == call.args[2]
            g == call.ret
        IN  /\ g = gcd(b, a)
            /\ gcd(a, 0) = a
            /\ b = 0 => g = a
            /\ gcdSteps(a, b) <= b
            /\ Divides(g, a) /\ Divides(g, b)
            /\ \A d \in 0 .. MaxArg : (Divides(d, a) /\ Divides(d, b)) => Divides(d, g)

\* gcd(8, 12) = 4: the first iteration exchanges the arguments
C19_Witness == call.fn = "gcd" /\ call.args = <<8, 12>> /\ call.ret = 4

\* C20: for base >= 0, exponent >= 0 and modulus >= 1 power returns
\* base^exponent mod modulus, a value r with 0 <= r < modulus; power(a, 0, m) is
\* 1 mod m and power(a, e, 1) is 0.
C20_PowerIsModularPower ==
    call.fn = "power" =>
        LET base == call.args[1]
            exp  == call.args[2]
            mod  == call.args[3]
        IN  /\ call.ret = PowMod(base, exp, mod)
            /\ 0 <= call.ret /\ call.ret < mod
            /\ exp = 0 => call.ret = 1 % mod
            /\ mod = 1 => call.ret = 0

\* the partial quotients of the Euclidean algorithm on (c, q)
RECURSIVE EuclidQuotients(_, _)
EuclidQuotients(c, q) ==
    IF q = 0 THEN <<>> ELSE <<c \div q>> \o EuclidQuotients(q, c % q)

\* numerator and denominator of the convergent before index k of cs, with
\* p_{-1} = 1, p_{-2} = 0, q_{-1} = 0, q_{-2} = 1
NumBefore(cs, k) == IF k = 1 THEN 1 ELSE IF k = 0 THEN 0 ELSE cs[k - 1].numerator

DenBefore(cs, k) == IF k = 1 THEN 0 ELSE IF k = 0 THEN 1 ELSE cs[k - 1].denominator

\* C21: for c >= 0, q >= 1 getConvergents returns the triples (a_k, p_k, q_k)
\* in order, a_k being the partial quotients of the Euclidean algorithm on
\* (c, q), p_k = a_k p_{k-1} + p_{k-2}, q_k = a_k q_{k-1} + q_{k-2}; the first
\* triple is (floor(c/q), floor(c/q), 1); when the expansion ran until the
\* remainder was 0 the last triple has p_k * q = q_k * c.
C21_ConvergentRecurrence ==
    call.fn = "getConvergents" =>
        LET c  == call.args[1]
            q  == call.args[2]
            cs == call.ret
            eq == EuclidQuotients(c, q)
        IN  /\ Len(cs) >= 1
            /\ cs[1] = [a |-> c \div q, numerator |-> c \div q, denominator |-> 1]
            /\ Len(cs) <= Len(eq)
            /\ \A k \in 1 .. Len(cs) :
                  /\ cs[k].a = eq[k]
                  /\ cs[k].numerator = cs[k].a * NumBefore(cs, k) + NumBefore(cs, k - 1)
                  /\ cs[k].denominator = cs[k].a * DenBefore(cs, k) + DenBefore(cs, k - 1)
            /\ Len(cs) = Len(eq) =>
                  cs[Len(cs)].numerator * q = cs[Len(cs)].denominator * c

\* an expansion of five convergents that ran until the remainder was 0
C21_Witness ==
    /\ call.fn = "getConvergents"
    /\ Len(call.ret) = 5
    /\ Len(EuclidQuotients(call.args[1], call.args[2])) = 5

\* C22 as stated: the denominators of the returned convergents are strictly
\* increasing, q_0 < q_1 < q_2 < ...
C22_DenominatorsStrictlyIncreasing ==
    call.fn = "getConvergents" =>
        \A k \in 1 .. Len(call.ret) - 1 :
            call.ret[k].denominator < call.ret[k + 1].denominator

\* C22 amended: the denominators never decrease and are strictly increasing
\* from the second convergent on; q_0 = q_1 = 1 exactly when the second partial
\* quotient is 1.
C22_DenominatorsIncreaseFromSecond ==
    call.fn = "getConvergents" =>
        LET cs == call.ret
        IN  /\ \A k \in 1 .. Len(cs) - 1 : cs[k].denominator <= cs[k + 1].denominator
            /\ \A k \in 2 .. Len(cs) - 1 : cs[k].denominator < cs[k + 1].denominator
            /\ Len(cs) >= 2 => (cs[1].denominator = cs[2].denominator <=> cs[2].a = 1)

\* c/q = 7/12 = [0; 1, 1, 2, 2]: denominators 1, 1, 2, 5, 12
C22_Witness ==
    /\ call.fn = "getConvergents"
    /\ call.args = <<7, 12>>
    /\ Len(call.ret) = 5
    /\ call.ret[1].denominator = 1
    /\ call.ret[2].denominator = 1

Abs(x) == IF x < 0 THEN -x ELSE x

\* C23: the error of the convergents never grows: for consecutive convergents
\* |p_{k+1}/q_{k+1} - c/q| <= |p_k/q_k - c/q|, compared by
\* cross-multiplication.
C23_ErrorNeverGrows ==
    call.fn = "getConvergents" =>
        LET c  == call.args[1]
            q  == call.args[2]
            cs == call.ret
        IN  \A k \in 1 .. Len(cs) - 1 :
                Abs(cs[k + 1].numerator * q - c * cs[k + 1].denominator) * cs[k].denominator
                    <= Abs(cs[k].numerator * q - c * cs[k].denominator) * cs[k + 1].denominator

\* an expansion of c/q > 1 with four convergents
C23_Witness ==
    /\ call.fn = "getConvergents"
    /\ call.args[1] > call.args[2]
    /\ Len(call.ret) = 4

\* C25: the no-period-candidate failure is unreachable: for every measurement
\* the sequencer synthesizes getConvergents(c, q) is non-empty, its first
\* convergent has denominator 1 with 0 < 1 < n, a period candidate exists, no
\* record carries the no-candidate error, and an attempt that has recorded a
\* measurement and moved on has recorded convergents and a period.
C25_CandidateAlwaysExists ==
    /\ \A rec \in Yielded \cup {currentAttempt} :
          Has(rec, "error") => rec.error # ErrNoCandidate
    /\ Has(currentAttempt, "quantumResult") =>
          LET cs == getConvergents(currentAttempt.quantumResult.c,
                                   currentAttempt.quantumResult.q)
          IN  /\ Len(cs) >= 1
              /\ cs[1].denominator = 1
              /\ 1 < N
              /\ CandidateR(cs, N) # 0
              /\ pc # "yieldQuantum" =>
                    /\ Has(currentAttempt, "fractionResult")
                    /\ Has(currentAttempt, "period")
                    /\ currentAttempt.fractionResult.convergents = cs
                    /\ currentAttempt.period = CandidateR(cs, N)

\* an attempt just resumed from its measurement, with a candidate above 1
C25_Witness ==
    /\ pc = "yieldFraction"
    /\ currentAttempt.fractionResult.convergents[1].denominator = 1
    /\ currentAttempt.period > 1

\* C26: whenever the measurement stage has run, base is in [2, n-1] and base
\* mod n is not 1, the true period r of the order-finding loop is the order of
\* base and at least 2, s lies in the non-empty range [1, r-1], and the
\* degenerate case r = 1, s = 0, c = 0 does not occur.
C26_TruePeriodAtLeastTwo ==
    Has(currentAttempt, "quantumResult") =>
        /\ currentAttempt.a \in 2 .. N - 1
        /\ currentAttempt.a % N # 1
        /\ IsOrder(loc.r, currentAttempt.a, N)
        /\ loc.r >= 2
        /\ loc.s \in 1 .. loc.r - 1
        /\ currentAttempt.quantumResult.c # 0

\* a measurement synthesized for a base of order 2 (s can only be 1)
C26_Witness ==
    /\ pc = "yieldQuantum"
    /\ loc.r = 2
    /\ loc.s = 1

\* C27: every session for odd n > 1 terminates whatever the draws: the order
\* loop runs only for gcd(base, n) = 1 and reaches val = 1 within n-1
\* iterations, an attempt yields at least 2 and at most 6 snapshots, and the
\* sequence ends after at most 60 records.
C27_SessionTerminates ==
    /\ [](Has(currentAttempt, "quantumResult") =>
            /\ GreatestCommonDivisor(currentAttempt.a, N) = 1
            /\ currentAttempt.gcdCheck = 1
            /\ loc.r \in 1 .. N - 1
            /\ PowMod(currentAttempt.a, loc.r, N) = 1)
    /\ [](Len(snaps) <= 6)
    /\ [](pc \in {"yieldFailed", "yieldSuccess", "done"} => Len(snaps) >= 2)
    /\ [](emitted <= 60)
    /\ (ValidN => <>(pc = "done"))

\* a session that ended after 60 records
C27_Witness ==
    /\ pc = "done"
    /\ emitted = 60
    /\ attemptId = MAX_ATTEMPTS

\* C28: for an odd prime n no success record is ever yielded, every gcd check
\* gives 1, every attempt ends failed, and the session ends after exactly 10
\* failed attempts.
C28_PrimeNeverSucceeds ==
    [][(IsPrime(N) /\ N % 2 = 1) =>
          /\ currentAttempt'.status # "success"
          /\ pc' # "yieldSuccess"
          /\ Has(currentAttempt', "gcdCheck") => currentAttempt'.gcdCheck = 1
          /\ (attemptId >= 1 /\ attemptId' # attemptId) =>
                /\ currentAttempt.status = "failed"
                /\ attemptId' = attemptId + 1
          /\ pc' = "done" =>
                /\ attemptId' = 10
                /\ currentAttempt'.status = "failed"
                /\ emitted' = 60]_vars

\* the session for n = 13 after its tenth failed attempt
C28_Witness ==
    /\ N = 13
    /\ pc = "done"
    /\ attemptId = 10
    /\ currentAttempt.status = "failed"

\* C29: a recorded period divides the true order r of base modulo n found by
\* the order-finding loop, and equals r / gcd(s, r) for the drawn s.
C29_PeriodDividesOrder ==
    Has(currentAttempt, "period") =>
        /\ Divides(currentAttempt.period, loc.r)
        /\ currentAttempt.period = loc.r \div GreatestCommonDivisor(loc.s, loc.r)

\* C30: for submissions made through handleSubmit, runShor never raises (and
\* App never stores an error), at most one session is consumed at a time,
\* isLoading is true exactly while a session is in flight and is set to false
\* once the generator has ended, and a non-null finalFactors is the factors of
\* the success record of the session for currentN, with product currentN.
C30_AppSession ==
    /\ pc # "threw"
    /\ app.error = ""
    /\ app.sessions \in {0, 1}
    /\ app.isLoading <=> app.sessions = 1
    /\ (app.isLoading /\ pc = "done") => ENABLED SessionEnd
    /\ (~app.isLoading /\ app.currentN # 0) => pc = "done"
    /\ app.isLoading => (N = app.currentN /\ N % 2 = 1 /\ N >= 5)
    /\ app.finalFactors # <<>> =>
          /\ ~app.isLoading
          /\ app.currentN = N
          /\ currentAttempt.status = "success"
          /\ app.finalFactors = currentAttempt.factors
          /\ app.finalFactors[1] * app.finalFactors[2] = app.currentN

\* the session for 21 ended by a success found in the factor extraction of
\* its third attempt
C30_Witness ==
    /\ app.currentN = 21
    /\ app.finalFactors # <<>>
    /\ Has(currentAttempt, "factorizationResult")
    /\ Len(app.attempts) = 3
    /\ ~app.isLoading

\* the convergents, the register size and the modulus of a kernel call that
\* expanded a fraction
CallConvergents == IF call.fn = "measure" THEN call.ret.convergents ELSE call.ret

CallQ == IF call.fn = "measure" THEN call.ret.q ELSE call.args[2]

\* the 30-iteration cap binds: the expansion of c/q has a 31st term
CapBinds ==
    /\ call.fn = "measure"
    /\ Len(EuclidQuotients(call.ret.c, call.ret.q)) > MaxCfIterations

\* C24 as stated: getConvergents returns at most 30 convergents with
\* denominators <= q, and for every measurement of the sequencer the
\* 30-iteration cap does not bind.
C24_CapNeverBinds ==
    call.fn \in {"getConvergents", "measure"} =>
        /\ Len(CallConvergents) <= 30
        /\ \A k \in 1 .. Len(CallConvergents) : CallConvergents[k].denominator <= CallQ
        /\ ~CapBinds

\* C24 amended: getConvergents returns at most 30 convergents with
\* denominators <= q; the cap can bind for a measurement of the sequencer, and
\* when it does 30 convergents are returned, the first 30 of the expansion,
\* and the 30th denominator is above n, so the last convergent with
\* denominator below n is among them.
C24_CapBindsOnlyAboveN ==
    call.fn \in {"getConvergents", "measure"} =>
        /\ Len(CallConvergents) <= 30
        /\ \A k \in 1 .. Len(CallConvergents) : CallConvergents[k].denominator <= CallQ
        /\ CapBinds =>
              /\ Len(CallConvergents) = 30
              /\ \A k \in 1 .. 30 :
                    CallConvergents[k].a = EuclidQuotients(call.ret.c, call.ret.q)[k]
              /\ CallConvergents[30].denominator > call.args[1]

\* n = 6317, base 2 of order 6316, s = 3893: c = 41363965, q = 2^26, an
\* expansion of 31 terms of which 30 are returned
C24_Witness ==
    /\ call.fn = "measure"
    /\ call.args = <<6317, 2, 3893>>
    /\ call.ret.r = 6316
    /\ call.ret.c = 41363965
    /\ CapBinds
    /\ Len(call.ret.convergents) = 30

====
